---------------------------- MODULE Spec2Model ----------------------------
(***************************************************************************)
(* State-machine model of the OpenHexa command-line client                 *)
(* (src/openhexa/cli.py): the configuration file, the workspaces / config  *)
(* commands that load, mutate and save it, and the pipelines push / list   *)
(* workflow against the remote backend.                                    *)
(*                                                                         *)
(* Every command invocation is a process p that runs the click group       *)
(* callback `app` (open_config, set debug, save_config) and then the       *)
(* handler of the command.  open_config and save_config are the only       *)
(* accesses to the shared file, so each is one step.                       *)
(***************************************************************************)
EXTENDS Naturals, Sequences, FiniteSets, TLC

(***************************************************************************)
(* Bounds and input domains                                                *)
(***************************************************************************)
MaxVersions == 2
MaxNumber == 2
MaxListed == 2
MaxRuns == 3

Slugs == {"ws1", "ws2"}
Tokens == {"t1", "t2"}
Urls == {"https://api.openhexa.org", "https://other"}
Codes == {"X"}
Paths == {"pipeline.py", "missing.py"}
Names == {"Alpha", "Beta"}
FilesOnDisk == {"pipeline.py"}

Procs == {1, 2}
SeqProcs == {1}

VARIABLES
    disk,            \* the configuration file: [present, content]
    remote,          \* the backend: remote[slug][code] = [exists, versions]
    pc,              \* pc[p]: position of invocation p
    inv,             \* inv[p]: command line of invocation p
    user_config,     \* user_config[p]: the configuration p holds in memory
    pipeline,        \* pipeline[p]: code resolved by import_pipeline ("" = none)
    workspace_pipelines, \* workspace_pipelines[p]: the list returned by get_pipelines
    new_version,     \* new_version[p]: value returned by upload_pipeline (0 = none)
    log,             \* log[p]: import / remote / prompt / report events of p, in order
    failed,          \* failed[p]: the step of p that failed ("" = none)
    outcome,         \* outcome[p]: how p ended ("running" while it has not)
    before,          \* before[p]: file content and backend as p started
    output,          \* output[p]: what pipelines list printed
    declined,        \* history: (slug, code) of declined creation prompts, until created
    runs             \* history: command lines entered so far in a concurrent run

vars == <<disk, remote, pc, inv, user_config, pipeline, workspace_pipelines,
          new_version, log, failed, outcome, before, output, declined, runs>>

(***************************************************************************)
(* The configuration object (a sectioned key/value document)               *)
(***************************************************************************)
\* str(debug) as written by app
str(b) == IF b THEN "True" ELSE "False"

\* is_debug(config)
is_debug(config) == config.debug = "True"

\* The section name "pipelines.<slug>"
PipelinesSection(slug) == <<"pipelines", slug>>

\* A fresh configuration: debug off, default backend, no workspace
DefaultConfig ==
    [debug |-> "False",
     url |-> "https://api.openhexa.org",
     current_workspace |-> "",
     workspaces |-> <<>>,
     sections |-> {}]

\* The [workspaces] section is an insertion-ordered list of (slug, token)
Keys(ws) == {ws[i][1] : i \in DOMAIN ws}

Has(ws, slug) == slug \in Keys(ws)

TokenOf(ws, slug) == ws[CHOOSE i \in DOMAIN ws : ws[i][1] = slug][2]

Occurrences(ws, slug) == Cardinality({i \in DOMAIN ws : ws[i][1] = slug})

\* user_config["workspaces"].update({slug: token})
UpdateAppendAlways(ws, slug, token) == Append(ws, <<slug, token>>)

Update(ws, slug, token) ==
    IF Has(ws, slug)
    THEN [i \in DOMAIN ws |-> IF ws[i][1] = slug THEN <<slug, token>> ELSE ws[i]]
    ELSE Append(ws, <<slug, token>>)

\* del user_config["workspaces"][slug]
Delete(ws, slug) == SelectSeq(ws, LAMBDA e : e[1] # slug)

\* open_config(): the file's content, or the defaults when there is no file
open_config(file) == IF file.present THEN file.content ELSE DefaultConfig

\* save_config(config): the whole document replaces the file
save_config(config) == [present |-> TRUE, content |-> config]

(***************************************************************************)
(* The backend                                                             *)
(***************************************************************************)
\* A pipeline of the backend: whether it is registered, and its versions in
\* upload order, each [number, file]
NoPipeline == [exists |-> FALSE, versions |-> <<>>]

\* The backend lists pipelines in a fixed order
CodeList ==
    CHOOSE s \in [1..Cardinality(Codes) -> Codes] :
        \A c \in Codes : \E i \in DOMAIN s : s[i] = c

\* A pipeline as the backend returns it: currentVersion is {} (no version)
\* or {number: n}, written <<>> and <<n>>
PipelineInfo(r, slug, code) ==
    [code |-> code,
     name |-> code,
     currentVersion |->
        IF r[slug][code].versions = <<>>
        THEN <<>>
        ELSE <<r[slug][code].versions[Len(r[slug][code].versions)].number>>]

\* get_pipelines(config): the pipelines of the active workspace
get_pipelines(r, slug) ==
    SelectSeq([i \in DOMAIN CodeList |-> PipelineInfo(r, slug, CodeList[i])],
              LAMBDA info : r[slug][info.code].exists)

CodesOf(pipelines) == {pipelines[i].code : i \in DOMAIN pipelines}

\* get_pipeline(config, code): the pipeline, or None
get_pipeline(r, slug, code) == r[slug][code].exists

\* create_pipeline(config, code): registers code under the active workspace
create_pipeline(r, slug, code) ==
    [r EXCEPT ![slug][code] = [exists |-> TRUE, versions |-> <<>>]]

\* upload_pipeline(config, path, files): appends one version, returns its number
upload_pipeline(r, slug, code, path) ==
    [r EXCEPT ![slug][code].versions =
        Append(@, [number |-> Len(@) + 1, file |-> path])]

(***************************************************************************)
(* Command lines                                                           *)
(***************************************************************************)
CommandLine(cmd, debug, slug, token, url, path) ==
    [cmd |-> cmd, debug |-> debug, slug |-> slug, token |-> token,
     url |-> url, path |-> path]

Invocations ==
    {CommandLine("add", d, s, t, "", "") : d \in BOOLEAN, s \in Slugs, t \in Tokens}
    \cup {CommandLine(c, d, s, "", "", "") :
            c \in {"activate", "rm"}, d \in BOOLEAN, s \in Slugs}
    \cup {CommandLine(c, d, "", "", "", "") :
            c \in {"list", "config", "pipelines_list"}, d \in BOOLEAN}
    \cup {CommandLine("set_url", d, "", "", u, "") : d \in BOOLEAN, u \in Urls}
    \cup {CommandLine("push", d, "", "", "", f) : d \in BOOLEAN, f \in Paths}

Idle == CommandLine("", FALSE, "", "", "", "")

NoRemote == [s \in Slugs |-> [c \in Codes |-> NoPipeline]]

Snapshot == [config |-> open_config(disk), remote |-> remote]

NoSnapshot == [config |-> DefaultConfig, remote |-> NoRemote]

NoOutput == [report |-> "", lines |-> <<>>]

(***************************************************************************)
(* Initial state                                                           *)
(***************************************************************************)
Init ==
    /\ disk \in {[present |-> FALSE, content |-> DefaultConfig]}
           \cup {[present |-> TRUE,
                  content |-> [DefaultConfig EXCEPT !.sections = S]] :
                    S \in SUBSET {PipelinesSection(s) : s \in Slugs}}
    /\ remote = NoRemote
    /\ pc = [p \in Procs |-> "idle"]
    /\ inv = [p \in Procs |-> Idle]
    /\ user_config = [p \in Procs |-> DefaultConfig]
    /\ pipeline = [p \in Procs |-> ""]
    /\ workspace_pipelines = [p \in Procs |-> <<>>]
    /\ new_version = [p \in Procs |-> 0]
    /\ log = [p \in Procs |-> <<>>]
    /\ failed = [p \in Procs |-> ""]
    /\ outcome = [p \in Procs |-> "running"]
    /\ before = [p \in Procs |-> NoSnapshot]
    /\ output = [p \in Procs |-> NoOutput]
    /\ declined = {}
    /\ runs = 0

(***************************************************************************)
(* Helpers for the steps of an invocation                                  *)
(***************************************************************************)
Goto(p, label) == pc' = [pc EXCEPT ![p] = label]

\* The handler returns or the process exits: outcome o
Finish(p, o) ==
    /\ pc' = [pc EXCEPT ![p] = "done"]
    /\ outcome' = [outcome EXCEPT ![p] = o]

Emit(p, event) == log' = [log EXCEPT ![p] = Append(@, event)]

\* A call that raised: the exception leaves the handler
Raise(p, step) ==
    /\ failed' = [failed EXCEPT ![p] = step]
    /\ Finish(p, "raised")

\* Process exit status of an outcome
ExitCode(o) ==
    IF o \in {"no_workspace", "file_not_found", "import_error", "aborted", "raised"}
    THEN 1 ELSE 0

(***************************************************************************)
(* The command line is entered                                             *)
(***************************************************************************)
Invoke(p) ==
    /\ pc[p] = "idle"
    /\ \E i \in Invocations : inv' = [inv EXCEPT ![p] = i]
    /\ before' = [before EXCEPT ![p] = Snapshot]
    /\ Goto(p, "app_open")
    /\ UNCHANGED <<disk, remote, user_config, pipeline, workspace_pipelines, new_version, log,
                   failed, outcome>>
    /\ UNCHANGED <<output, declined, runs>>

\* app, line 32: user_config = open_config()
AppOpenFresh(p) ==
    /\ pc[p] = "app_open"
    /\ user_config' = [user_config EXCEPT ![p] = DefaultConfig]
    /\ Goto(p, "app_save")
    /\ UNCHANGED <<disk, remote, inv, pipeline, workspace_pipelines, new_version, log, failed,
                   outcome, before>>
    /\ UNCHANGED <<output, declined, runs>>

AppOpen(p) ==
    /\ pc[p] = "app_open"
    /\ user_config' = [user_config EXCEPT ![p] = open_config(disk)]
    /\ Goto(p, "app_save")
    /\ UNCHANGED <<disk, remote, inv, pipeline, workspace_pipelines, new_version, log, failed,
                   outcome, before>>
    /\ UNCHANGED <<output, declined, runs>>

\* app, lines 33-34: set debug from the flag, save_config
AppSaveKeepsDebug(p) ==
    /\ pc[p] = "app_save"
    /\ disk' = save_config(user_config[p])
    /\ Goto(p, "cmd_open")
    /\ UNCHANGED <<remote, inv, user_config, pipeline, workspace_pipelines, new_version, log,
                   failed, outcome, before>>
    /\ UNCHANGED <<output, declined, runs>>

AppSave(p) ==
    /\ pc[p] = "app_save"
    /\ user_config' = [user_config EXCEPT ![p].debug = str(inv[p].debug)]
    /\ disk' = save_config(user_config'[p])
    /\ Goto(p, "cmd_open")
    /\ UNCHANGED <<remote, inv, pipeline, workspace_pipelines, new_version, log, failed, outcome,
                   before>>
    /\ UNCHANGED <<output, declined, runs>>

\* First statement of every handler: user_config = open_config()
CmdOpen(p) ==
    /\ pc[p] = "cmd_open"
    /\ user_config' = [user_config EXCEPT ![p] = open_config(disk)]
    /\ Goto(p, inv[p].cmd)
    /\ UNCHANGED <<disk, remote, inv, pipeline, workspace_pipelines, new_version, log, failed,
                   outcome, before>>
    /\ UNCHANGED <<output, declined, runs>>

(***************************************************************************)
(* workspaces add / activate / list / rm                                   *)
(***************************************************************************)
\* Lines 69-70 of workspaces_add
add(config, slug, token) ==
    [config EXCEPT !.workspaces = Update(@, slug, token),
                   !.current_workspace = slug]

\* Whether workspaces_add re-raises the validation error (line 66)
addRaisesAlways(config) == TRUE

addRaisesNever(config) == FALSE

addRaises(config) == is_debug(config)

\* workspaces_add after open_config: get_workspace succeeds or raises
WorkspacesAdd(p) ==
    /\ pc[p] = "add"
    /\ \E valid \in BOOLEAN :
        /\ Emit(p, "get_workspace")
        /\ IF ~valid /\ addRaises(user_config[p])
           THEN /\ Raise(p, "get_workspace")
                /\ UNCHANGED <<disk, user_config>>
           ELSE /\ user_config' = [user_config EXCEPT
                        ![p] = add(@, inv[p].slug, inv[p].token)]
                /\ disk' = save_config(user_config'[p])
                /\ failed' = [failed EXCEPT
                        ![p] = IF valid THEN "" ELSE "get_workspace"]
                /\ Finish(p, "ok")
    /\ UNCHANGED <<remote, inv, pipeline, workspace_pipelines, new_version, before>>
    /\ UNCHANGED <<output, declined, runs>>

\* Line 88 of workspaces_activate
activate(config, slug) == [config EXCEPT !.current_workspace = slug]

\* The guard of lines 83 and 120: slug not in user_config["workspaces"]
UnknownNever(config, slug) == FALSE

Unknown(config, slug) == ~Has(config.workspaces, slug)

\* (variant that writes the one field into the file as it is now)
WorkspacesActivateInPlace(p) ==
    /\ pc[p] = "activate"
    /\ IF Unknown(user_config[p], inv[p].slug)
       THEN /\ Finish(p, "not_found")
            /\ UNCHANGED <<disk, user_config>>
       ELSE /\ user_config' = [user_config EXCEPT ![p] = activate(@, inv[p].slug)]
            /\ disk' = save_config(activate(open_config(disk), inv[p].slug))
            /\ Finish(p, "ok")
    /\ UNCHANGED <<remote, inv, pipeline, workspace_pipelines, new_version, log, failed, before>>
    /\ UNCHANGED <<output, declined, runs>>

WorkspacesActivate(p) ==
    /\ pc[p] = "activate"
    /\ IF Unknown(user_config[p], inv[p].slug)
       THEN /\ Finish(p, "not_found")
            /\ UNCHANGED <<disk, user_config>>
       ELSE /\ user_config' = [user_config EXCEPT ![p] = activate(@, inv[p].slug)]
            /\ disk' = save_config(user_config'[p])
            /\ Finish(p, "ok")
    /\ UNCHANGED <<remote, inv, pipeline, workspace_pipelines, new_version, log, failed, before>>
    /\ UNCHANGED <<output, declined, runs>>

\* workspaces_list prints and saves what it loaded
WorkspacesList(p) ==
    /\ pc[p] = "list"
    /\ disk' = save_config(user_config[p])
    /\ Finish(p, "ok")
    /\ UNCHANGED <<remote, inv, user_config, pipeline, workspace_pipelines, new_version, log,
                   failed, before>>
    /\ UNCHANGED <<output, declined, runs>>

\* Lines 125-130 of workspaces_rm
rmKeepCurrent(config, slug) ==
    [config EXCEPT !.workspaces = Delete(@, slug),
                   !.sections = @ \ {PipelinesSection(slug)}]

rmKeepSection(config, slug) ==
    [config EXCEPT !.workspaces = Delete(@, slug),
                   !.current_workspace = IF @ = slug THEN "" ELSE @]

rm(config, slug) ==
    [config EXCEPT !.workspaces = Delete(@, slug),
                   !.sections = @ \ {PipelinesSection(slug)},
                   !.current_workspace = IF @ = slug THEN "" ELSE @]

WorkspacesRm(p) ==
    /\ pc[p] = "rm"
    /\ IF Unknown(user_config[p], inv[p].slug)
       THEN /\ Finish(p, "not_found")
            /\ UNCHANGED <<disk, user_config>>
       ELSE /\ user_config' = [user_config EXCEPT ![p] = rm(@, inv[p].slug)]
            /\ disk' = save_config(user_config'[p])
            /\ Finish(p, "ok")
    /\ UNCHANGED <<remote, inv, pipeline, workspace_pipelines, new_version, log, failed, before>>
    /\ UNCHANGED <<output, declined, runs>>

(***************************************************************************)
(* config / config set_url                                                 *)
(***************************************************************************)
\* config prints the settings; nothing is saved (the group callback also runs,
\* to the same effect, ahead of config set_url)
Config(p) ==
    /\ pc[p] = "config"
    /\ Finish(p, "ok")
    /\ UNCHANGED <<disk, remote, inv, user_config, pipeline, workspace_pipelines, new_version, log,
                   failed, before>>
    /\ UNCHANGED <<output, declined, runs>>

\* (variant that writes the one field into the file as it is now)
ConfigSetUrlInPlace(p) ==
    /\ pc[p] = "set_url"
    /\ user_config' = [user_config EXCEPT ![p].url = inv[p].url]
    /\ disk' = save_config([open_config(disk) EXCEPT !.url = inv[p].url])
    /\ Finish(p, "ok")
    /\ UNCHANGED <<remote, inv, pipeline, workspace_pipelines, new_version, log, failed, before>>
    /\ UNCHANGED <<output, declined, runs>>

ConfigSetUrl(p) ==
    /\ pc[p] = "set_url"
    /\ user_config' = [user_config EXCEPT ![p].url = inv[p].url]
    /\ disk' = save_config(user_config'[p])
    /\ Finish(p, "ok")
    /\ UNCHANGED <<remote, inv, pipeline, workspace_pipelines, new_version, log, failed, before>>
    /\ UNCHANGED <<output, declined, runs>>

(***************************************************************************)
(* pipelines push                                                          *)
(***************************************************************************)
\* workspace = user_config["openhexa"]["current_workspace"]
workspace(p) == user_config[p].current_workspace

\* Line 196: not os.path.exists(path)
PathMissingNever(path) == FALSE

PathMissing(path) == path \notin FilesOnDisk

\* Lines 191-198: an active workspace and an existing path are required
PushPrecondition(p) ==
    /\ pc[p] = "push"
    /\ IF workspace(p) = ""
       THEN Finish(p, "no_workspace")
       ELSE IF PathMissing(inv[p].path)
            THEN Finish(p, "file_not_found")
            ELSE Goto(p, "push_import") /\ UNCHANGED outcome
    /\ UNCHANGED <<disk, remote, inv, user_config, pipeline, workspace_pipelines,
                   new_version, log, failed, before>>
    /\ UNCHANGED <<output, declined, runs>>

\* Lines 200-206: import_pipeline returns the pipeline or raises
PushImport(p) ==
    /\ pc[p] = "push_import"
    /\ Emit(p, "import_pipeline")
    /\ \/ \E code \in Codes :
            /\ pipeline' = [pipeline EXCEPT ![p] = code]
            /\ Goto(p, "push_get_pipelines")
            /\ UNCHANGED <<failed, outcome>>
       \/ /\ failed' = [failed EXCEPT ![p] = "import_pipeline"]
          /\ Finish(p, IF is_debug(user_config[p]) THEN "raised" ELSE "import_error")
          /\ UNCHANGED pipeline
    /\ UNCHANGED <<disk, remote, inv, user_config, workspace_pipelines,
                   new_version, before>>
    /\ UNCHANGED <<output, declined, runs>>

\* Line 208: workspace_pipelines = get_pipelines(user_config)
PushGetPipelines(p) ==
    /\ pc[p] = "push_get_pipelines"
    /\ Emit(p, "get_pipelines")
    /\ \/ /\ workspace_pipelines' =
                [workspace_pipelines EXCEPT ![p] = get_pipelines(remote, workspace(p))]
          /\ Goto(p, "push_get_pipeline")
          /\ UNCHANGED <<failed, outcome>>
       \/ /\ Raise(p, "get_pipelines")
          /\ UNCHANGED workspace_pipelines
    /\ UNCHANGED <<disk, remote, inv, user_config, pipeline, new_version, before>>
    /\ UNCHANGED <<output, declined, runs>>

\* Line 212: whether the create branch is taken
PushMissingAlways(p) == TRUE

PushMissingUnlessDeclined(p) ==
    /\ ~get_pipeline(remote, workspace(p), pipeline[p])
    /\ <<workspace(p), pipeline[p]>> \notin declined

PushMissing(p) == ~get_pipeline(remote, workspace(p), pipeline[p])

\* Line 212: get_pipeline(user_config, pipeline.code) is None ?
PushGetPipeline(p) ==
    /\ pc[p] = "push_get_pipeline"
    /\ Emit(p, "get_pipeline")
    /\ \/ /\ Goto(p, IF PushMissing(p) THEN "push_confirm" ELSE "push_upload")
          /\ UNCHANGED <<failed, outcome>>
       \/ Raise(p, "get_pipeline")
    /\ UNCHANGED <<disk, remote, inv, user_config, pipeline, workspace_pipelines,
                   new_version, before>>
    /\ UNCHANGED <<output, declined, runs>>

\* Where push goes once the operator has answered the prompt (abort=True)
AfterConfirmIgnored(yes) == "push_create"

AfterConfirm(yes) == IF yes THEN "push_create" ELSE "done"

\* Lines 213-220: click.confirm(..., abort=True)
PushConfirm(p) ==
    /\ pc[p] = "push_confirm"
    /\ Emit(p, "confirm")
    /\ \E yes \in BOOLEAN :
        /\ Goto(p, AfterConfirm(yes))
        /\ outcome' = [outcome EXCEPT
                ![p] = IF AfterConfirm(yes) = "done" THEN "aborted" ELSE @]
        /\ failed' = [failed EXCEPT ![p] = IF yes THEN @ ELSE "confirm"]
        /\ declined' = IF yes THEN declined
                       ELSE declined \cup {<<workspace(p), pipeline[p]>>}
    /\ UNCHANGED <<disk, remote, inv, user_config, pipeline, workspace_pipelines,
                   new_version, before>>
    /\ UNCHANGED <<output, runs>>

\* Line 221: create_pipeline(user_config, pipeline.code)
PushCreate(p) ==
    /\ pc[p] = "push_create"
    /\ Emit(p, "create_pipeline")
    /\ \/ /\ ~get_pipeline(remote, workspace(p), pipeline[p])
          /\ remote' = create_pipeline(remote, workspace(p), pipeline[p])
          /\ declined' = declined \ {<<workspace(p), pipeline[p]>>}
          /\ Goto(p, "push_upload")
          /\ UNCHANGED <<failed, outcome>>
       \/ /\ Raise(p, "create_pipeline")
          /\ UNCHANGED <<remote, declined>>
    /\ UNCHANGED <<disk, inv, user_config, pipeline, workspace_pipelines,
                   new_version, before>>
    /\ UNCHANGED <<output, runs>>

\* The backend after the upload call(s) of one push
UploadedTwice(r, slug, code, path) ==
    upload_pipeline(upload_pipeline(r, slug, code, path), slug, code, path)

Uploaded(r, slug, code, path) == upload_pipeline(r, slug, code, path)

\* Where push goes when upload_pipeline raised
AfterUploadFailureRetry == "push_upload"

AfterUploadFailure == "done"

\* Line 227: new_version = upload_pipeline(user_config, path, files)
PushUpload(p) ==
    /\ pc[p] = "push_upload"
    /\ Emit(p, "upload_pipeline")
    /\ \/ /\ get_pipeline(remote, workspace(p), pipeline[p])
          /\ Len(remote[workspace(p)][pipeline[p]].versions) < MaxVersions
          /\ remote' = Uploaded(remote, workspace(p), pipeline[p], inv[p].path)
          /\ new_version' = [new_version EXCEPT
                ![p] = Len(remote'[workspace(p)][pipeline[p]].versions)]
          /\ Goto(p, "push_report")
          /\ UNCHANGED <<failed, outcome>>
       \/ /\ failed' = [failed EXCEPT ![p] = "upload_pipeline"]
          /\ Goto(p, AfterUploadFailure)
          /\ outcome' = [outcome EXCEPT
                ![p] = IF AfterUploadFailure = "done" THEN "raised" ELSE @]
          /\ UNCHANGED <<remote, new_version>>
    /\ UNCHANGED <<disk, inv, user_config, pipeline, workspace_pipelines, before>>
    /\ UNCHANGED <<output, declined, runs>>

\* Lines 228-233: the version and the link are printed
PushReport(p) ==
    /\ pc[p] = "push_report"
    /\ Emit(p, "report")
    /\ Finish(p, "ok")
    /\ UNCHANGED <<disk, remote, inv, user_config, pipeline, workspace_pipelines,
                   new_version, failed, before>>
    /\ UNCHANGED <<output, declined, runs>>

(***************************************************************************)
(* pipelines list                                                          *)
(***************************************************************************)
\* Lines 241-246
PipelinesListPrecondition(p) ==
    /\ pc[p] = "pipelines_list"
    /\ IF workspace(p) = ""
       THEN Finish(p, "no_workspace")
       ELSE Goto(p, "pipelines_list_get") /\ UNCHANGED outcome
    /\ UNCHANGED <<disk, remote, inv, user_config, pipeline, workspace_pipelines,
                   new_version, log, failed, before>>
    /\ UNCHANGED <<output, declined, runs>>

\* Line 248: workspace_pipelines = get_pipelines(user_config)
PipelinesList(p) ==
    /\ pc[p] = "pipelines_list_get"
    /\ Emit(p, "get_pipelines")
    /\ \/ /\ workspace_pipelines' =
                [workspace_pipelines EXCEPT ![p] = get_pipelines(remote, workspace(p))]
          /\ Goto(p, "pipelines_list_render")
          /\ UNCHANGED <<failed, outcome>>
       \/ /\ Raise(p, "get_pipelines")
          /\ UNCHANGED workspace_pipelines
    /\ UNCHANGED <<disk, remote, inv, user_config, pipeline, new_version, before>>
    /\ UNCHANGED <<output, declined, runs>>

\* Lines 254-258: version = pipeline["currentVersion"].get("number");
\* f"v{version}" if version else "N/A"
version_label(currentVersion) ==
    IF currentVersion # <<>> /\ currentVersion[1] # 0
    THEN <<"v", currentVersion[1]>>
    ELSE <<"N/A">>

\* Line 259: f"* {code} - {name} ({version})"
pipeline_line(info) ==
    [code |-> info.code, name |-> info.name,
     version |-> version_label(info.currentVersion)]

\* Lines 249-259: what is printed for the list returned by get_pipelines
pipelines_list_output(pipelines) ==
    IF Len(pipelines) = 0
    THEN [report |-> "no_pipelines", lines |-> <<>>]
    ELSE [report |-> "pipelines",
          lines |-> [i \in DOMAIN pipelines |-> pipeline_line(pipelines[i])]]

\* Lines 249-259
PipelinesListRender(p) ==
    /\ pc[p] = "pipelines_list_render"
    /\ output' = [output EXCEPT ![p] = pipelines_list_output(workspace_pipelines[p])]
    /\ Finish(p, "ok")
    /\ UNCHANGED <<disk, remote, inv, user_config, pipeline, workspace_pipelines,
                   new_version, log, failed, before>>
    /\ UNCHANGED <<declined, runs>>

(***************************************************************************)
(* The process ends; the next command line starts from a fresh process     *)
(***************************************************************************)
Return(p) ==
    /\ pc[p] = "done"
    /\ pc' = [pc EXCEPT ![p] = "idle"]
    /\ inv' = [inv EXCEPT ![p] = Idle]
    /\ user_config' = [user_config EXCEPT ![p] = DefaultConfig]
    /\ pipeline' = [pipeline EXCEPT ![p] = ""]
    /\ workspace_pipelines' = [workspace_pipelines EXCEPT ![p] = <<>>]
    /\ output' = [output EXCEPT ![p] = NoOutput]
    /\ new_version' = [new_version EXCEPT ![p] = 0]
    /\ log' = [log EXCEPT ![p] = <<>>]
    /\ failed' = [failed EXCEPT ![p] = ""]
    /\ outcome' = [outcome EXCEPT ![p] = "running"]
    /\ before' = [before EXCEPT ![p] = NoSnapshot]
    /\ UNCHANGED <<disk, remote>>
    /\ UNCHANGED <<declined, runs>>

(***************************************************************************)
(* Specification: command lines run one after the other                    *)
(***************************************************************************)
Next ==
    \E p \in SeqProcs :
        \/ Invoke(p)
        \/ AppOpen(p)
        \/ AppSave(p)
        \/ CmdOpen(p)
        \/ WorkspacesAdd(p)
        \/ WorkspacesActivate(p)
        \/ WorkspacesList(p)
        \/ WorkspacesRm(p)
        \/ Config(p)
        \/ ConfigSetUrl(p)
        \/ PushPrecondition(p)
        \/ PushImport(p)
        \/ PushGetPipelines(p)
        \/ PushGetPipeline(p)
        \/ PushConfirm(p)
        \/ PushCreate(p)
        \/ PushUpload(p)
        \/ PushReport(p)
        \/ PipelinesListPrecondition(p)
        \/ PipelinesList(p)
        \/ PipelinesListRender(p)
        \/ Return(p)

Spec == Init /\ [][Next]_vars

(***************************************************************************)
(* Specification of concurrent processes: at most MaxRuns command lines    *)
(* that touch the configuration only, entered at any time, their           *)
(* open_config and save_config steps interleaved in any order (no lock)    *)
(***************************************************************************)
ConcInvocations ==
    {i \in Invocations :
        /\ i.cmd \in {"add", "activate", "rm", "list", "set_url"}
        /\ ~i.debug
        /\ i.token \in {"", "t1"}
        /\ i.url \in {"", "https://other"}}

InvokeConc(p) ==
    /\ pc[p] = "idle"
    /\ runs < MaxRuns
    /\ runs' = runs + 1
    /\ \E i \in ConcInvocations : inv' = [inv EXCEPT ![p] = i]
    /\ before' = [before EXCEPT ![p] = Snapshot]
    /\ Goto(p, "app_open")
    /\ UNCHANGED <<disk, remote, user_config, pipeline, workspace_pipelines,
                   new_version, log, failed, outcome, output, declined>>

NextConc ==
    \E p \in Procs :
        \/ InvokeConc(p)
        \/ AppOpen(p)
        \/ AppSave(p)
        \/ CmdOpen(p)
        \/ WorkspacesAdd(p)
        \/ WorkspacesActivate(p)
        \/ WorkspacesList(p)
        \/ WorkspacesRm(p)
        \/ ConfigSetUrl(p)
        \/ Return(p)

SpecConc == Init /\ [][NextConc]_vars

(***************************************************************************)
(* Specification of the rendering of pipelines list: the handler has       *)
(* received a list from the backend, drawn from the lists of at most       *)
(* MaxListed pipelines with no version number or one in 0..MaxNumber       *)
(***************************************************************************)
Responses ==
    LET infos == [code : Codes, name : Names,
                  currentVersion : {<<>>} \cup {<<n>> : n \in 0..MaxNumber}]
    IN  UNION {[1..n -> infos] : n \in 0..MaxListed}

InitList ==
    /\ disk \in {save_config(add(DefaultConfig, s, t)) : s \in Slugs, t \in Tokens}
    /\ remote = NoRemote
    /\ pc = [p \in Procs |-> IF p \in SeqProcs THEN "pipelines_list_render" ELSE "idle"]
    /\ inv = [p \in Procs |->
                IF p \in SeqProcs
                THEN CommandLine("pipelines_list", FALSE, "", "", "", "")
                ELSE Idle]
    /\ user_config = [p \in Procs |->
                IF p \in SeqProcs THEN open_config(disk) ELSE DefaultConfig]
    /\ pipeline = [p \in Procs |-> ""]
    /\ \E response \in Responses :
            workspace_pipelines = [p \in Procs |->
                IF p \in SeqProcs THEN response ELSE <<>>]
    /\ new_version = [p \in Procs |-> 0]
    /\ log = [p \in Procs |-> IF p \in SeqProcs THEN <<"get_pipelines">> ELSE <<>>]
    /\ failed = [p \in Procs |-> ""]
    /\ outcome = [p \in Procs |-> "running"]
    /\ before = [p \in Procs |-> IF p \in SeqProcs THEN Snapshot ELSE NoSnapshot]
    /\ output = [p \in Procs |-> NoOutput]
    /\ declined = {}
    /\ runs = 0

NextList == \E p \in SeqProcs : PipelinesListRender(p)

SpecList == InitList /\ [][NextList]_vars

(***************************************************************************)
(* Vocabulary of the properties                                            *)
(***************************************************************************)
\* The configuration as persisted now, and as it was when p started
Persisted == open_config(disk)

Started(p) == before[p].config

Done(p, cmd) == pc[p] = "done" /\ inv[p].cmd = cmd

Called(p, event) == \E i \in DOMAIN log[p] : log[p][i] = event

IndexOf(p, event) == CHOOSE i \in DOMAIN log[p] : log[p][i] = event

IsPrefix(s, t) == Len(s) <= Len(t) /\ \A i \in DOMAIN s : s[i] = t[i]

\* The workspaces, tokens, current workspace, backend url and per-workspace
\* sections of two configurations are the same
SameButDebug(c, d) ==
    /\ c.workspaces = d.workspaces
    /\ c.current_workspace = d.current_workspace
    /\ c.sections = d.sections
    /\ c.url = d.url

UpdatePath == <<"import_pipeline", "get_pipelines", "get_pipeline",
                "upload_pipeline", "report">>

CreatePath == <<"import_pipeline", "get_pipelines", "get_pipeline", "confirm",
                "create_pipeline", "upload_pipeline", "report">>

(***************************************************************************)
(* C1                                                                      *)
(***************************************************************************)
\* C1: in every state, the persisted current_workspace is the empty string
\* or a key of the persisted workspaces mapping.
CurrentWorkspaceInvariant ==
    \/ Persisted.current_workspace = ""
    \/ Has(Persisted.workspaces, Persisted.current_workspace)

\* The current workspace has just been removed while another one remains
CurrentWorkspaceRemoved ==
    \E p \in Procs :
        /\ Done(p, "rm")
        /\ outcome[p] = "ok"
        /\ Started(p).current_workspace = inv[p].slug
        /\ Persisted.current_workspace = ""
        /\ Persisted.workspaces # <<>>

(***************************************************************************)
(* C2                                                                      *)
(***************************************************************************)
\* C2 as stated: after every add(slug, token) call, the mapping holds slug
\* exactly once, with the token of that call, and no other entry changed.
AddStoresLatestToken ==
    \A p \in Procs :
        Done(p, "add") =>
            /\ Occurrences(Persisted.workspaces, inv[p].slug) = 1
            /\ TokenOf(Persisted.workspaces, inv[p].slug) = inv[p].token
            /\ \A s \in Slugs \ {inv[p].slug} :
                    /\ Has(Persisted.workspaces, s) = Has(Started(p).workspaces, s)
                    /\ Has(Persisted.workspaces, s) =>
                            TokenOf(Persisted.workspaces, s)
                                = TokenOf(Started(p).workspaces, s)

\* C2 amended: no slug is ever stored twice, and after every add(slug, token)
\* call that completed (its validation error, if any, was not propagated)
\* the mapping holds slug with the token of that call and every other entry
\* is as it was.
CompletedAddStoresLatestToken ==
    /\ \A s \in Slugs : Occurrences(Persisted.workspaces, s) <= 1
    /\ \A p \in Procs :
        Done(p, "add") /\ outcome[p] = "ok" =>
            /\ Occurrences(Persisted.workspaces, inv[p].slug) = 1
            /\ TokenOf(Persisted.workspaces, inv[p].slug) = inv[p].token
            /\ \A s \in Slugs \ {inv[p].slug} :
                    /\ Has(Persisted.workspaces, s) = Has(Started(p).workspaces, s)
                    /\ Has(Persisted.workspaces, s) =>
                            TokenOf(Persisted.workspaces, s)
                                = TokenOf(Started(p).workspaces, s)

\* An existing slug has been added again with another token, beside a
\* second workspace
TokenOverwritten ==
    \E p \in Procs :
        /\ Done(p, "add")
        /\ outcome[p] = "ok"
        /\ Has(Started(p).workspaces, inv[p].slug)
        /\ TokenOf(Started(p).workspaces, inv[p].slug) # inv[p].token
        /\ TokenOf(Persisted.workspaces, inv[p].slug) = inv[p].token
        /\ Len(Persisted.workspaces) = Cardinality(Slugs)

(***************************************************************************)
(* C3                                                                      *)
(***************************************************************************)
\* C3: after rm of a known slug, the slug is no key of workspaces, there is
\* no pipelines.<slug> section, and current_workspace is empty if it was the
\* slug and unchanged otherwise.
RemoveCleansUp ==
    \A p \in Procs :
        Done(p, "rm") /\ Has(Started(p).workspaces, inv[p].slug) =>
            /\ ~Has(Persisted.workspaces, inv[p].slug)
            /\ PipelinesSection(inv[p].slug) \notin Persisted.sections
            /\ Persisted.current_workspace =
                    IF Started(p).current_workspace = inv[p].slug
                    THEN ""
                    ELSE Started(p).current_workspace

\* A known, non-current workspace that had a pipelines section was removed
SectionRemoved ==
    \E p \in Procs :
        /\ Done(p, "rm")
        /\ Has(Started(p).workspaces, inv[p].slug)
        /\ PipelinesSection(inv[p].slug) \in Started(p).sections
        /\ Started(p).current_workspace \notin {"", inv[p].slug}
        /\ PipelinesSection(inv[p].slug) \notin Persisted.sections

(***************************************************************************)
(* C4                                                                      *)
(***************************************************************************)
\* C4: activate and rm of a slug that is no key of workspaces end "not
\* found" and leave workspaces, tokens, current_workspace, url and the
\* per-workspace sections as persisted before the command.
UnknownSlugChangesNothing ==
    \A p \in Procs :
        /\ pc[p] = "done"
        /\ inv[p].cmd \in {"activate", "rm"}
        /\ ~Has(Started(p).workspaces, inv[p].slug)
        => /\ outcome[p] = "not_found"
           /\ SameButDebug(Persisted, Started(p))

\* rm of an unknown slug that has a pipelines section, with a workspace active
UnknownSlugRefused ==
    \E p \in Procs :
        /\ Done(p, "rm")
        /\ ~Has(Started(p).workspaces, inv[p].slug)
        /\ PipelinesSection(inv[p].slug) \in Started(p).sections
        /\ Started(p).current_workspace # ""
        /\ outcome[p] = "not_found"

(***************************************************************************)
(* C5                                                                      *)
(***************************************************************************)
\* C5: after add(slug, token) without --debug, whether get_workspace
\* succeeded or raised, workspaces[slug] = token and current_workspace = slug.
AddPersistsWhateverValidation ==
    \A p \in Procs :
        Done(p, "add") /\ ~inv[p].debug =>
            /\ Has(Persisted.workspaces, inv[p].slug)
            /\ TokenOf(Persisted.workspaces, inv[p].slug) = inv[p].token
            /\ Persisted.current_workspace = inv[p].slug

\* An add without --debug whose validation raised, over another current
\* workspace
AddPersistedAfterFailedValidation ==
    \E p \in Procs :
        /\ Done(p, "add")
        /\ ~inv[p].debug
        /\ failed[p] = "get_workspace"
        /\ Started(p).current_workspace \notin {"", inv[p].slug}
        /\ Persisted.current_workspace = inv[p].slug

(***************************************************************************)
(* C6                                                                      *)
(***************************************************************************)
\* C6: in a push, create_pipeline is called only right after a confirmed
\* prompt and before upload_pipeline; a declined prompt ends the push with
\* exit status 1, no call to create_pipeline or upload_pipeline, and the
\* backend as it was.
CreateOnlyAfterConfirm ==
    \A p \in Procs :
        inv[p].cmd = "push" =>
            /\ Called(p, "create_pipeline") =>
                    /\ Called(p, "confirm")
                    /\ IndexOf(p, "create_pipeline") = IndexOf(p, "confirm") + 1
                    /\ failed[p] # "confirm"
            /\ Called(p, "confirm") /\ Called(p, "upload_pipeline") =>
                    /\ Called(p, "create_pipeline")
                    /\ IndexOf(p, "create_pipeline") < IndexOf(p, "upload_pipeline")
            /\ failed[p] = "confirm" =>
                    /\ ~Called(p, "create_pipeline")
                    /\ ~Called(p, "upload_pipeline")
                    /\ remote = before[p].remote
                    /\ pc[p] = "done"
                    /\ ExitCode(outcome[p]) = 1

\* A push created the missing pipeline after confirmation and uploaded
PipelineCreatedThenUploaded ==
    \E p \in Procs :
        /\ Done(p, "push")
        /\ outcome[p] = "ok"
        /\ log[p] = CreatePath
        /\ ~before[p].remote[Started(p).current_workspace][pipeline[p]].exists
        /\ remote[Started(p).current_workspace][pipeline[p]].exists

(***************************************************************************)
(* C7                                                                      *)
(***************************************************************************)
\* C7: a push whose fetched pipeline list contains the resolved code never
\* prompts and never calls create_pipeline; its call after get_pipeline is
\* upload_pipeline.
UpdatePathUploadsDirectly ==
    \A p \in Procs :
        inv[p].cmd = "push" /\ pipeline[p] \in CodesOf(workspace_pipelines[p]) =>
            /\ ~Called(p, "confirm")
            /\ ~Called(p, "create_pipeline")
            /\ IsPrefix(log[p], UpdatePath)
            /\ pc[p] \notin {"push_confirm", "push_create"}

\* A push of a pipeline found in the fetched list has uploaded
ExistingPipelineUploaded ==
    \E p \in Procs :
        /\ Done(p, "push")
        /\ pipeline[p] \in CodesOf(workspace_pipelines[p])
        /\ outcome[p] = "ok"
        /\ Called(p, "upload_pipeline")

(***************************************************************************)
(* C8                                                                      *)
(***************************************************************************)
\* C8: pipelines push and pipelines list without an active workspace, and
\* push of a path that does not exist, make no import and no remote call
\* and end with exit status 1.
NoCallWithoutPreconditions ==
    \A p \in Procs :
        /\ inv[p].cmd \in {"push", "pipelines_list"}
        /\ \/ Started(p).current_workspace = ""
           \/ inv[p].cmd = "push" /\ inv[p].path \notin FilesOnDisk
        => /\ log[p] = <<>>
           /\ remote = before[p].remote
           /\ pc[p] \notin {"push_import", "push_get_pipelines", "push_get_pipeline",
                             "push_confirm", "push_create", "push_upload",
                             "push_report", "pipelines_list_get"}
           /\ pc[p] = "done" => ExitCode(outcome[p]) = 1

\* A push of a missing path with a workspace active has ended
MissingPathRefused ==
    \E p \in Procs :
        /\ Done(p, "push")
        /\ Started(p).current_workspace # ""
        /\ inv[p].path \notin FilesOnDisk
        /\ outcome[p] = "file_not_found"

(***************************************************************************)
(* C9                                                                      *)
(***************************************************************************)
\* C9: the calls of a push are a prefix of import, list, get, [confirm,
\* create,] upload, report, made only once the preconditions held; a failed
\* step is the last call and ends the push; upload_pipeline is called at
\* most once; the report follows a successful upload.
PushStepsInOrder ==
    \A p \in Procs :
        inv[p].cmd = "push" =>
            /\ IsPrefix(log[p], UpdatePath) \/ IsPrefix(log[p], CreatePath)
            /\ log[p] # <<>> =>
                    /\ Started(p).current_workspace # ""
                    /\ inv[p].path \in FilesOnDisk
            /\ failed[p] # "" =>
                    /\ log[p] # <<>>
                    /\ log[p][Len(log[p])] = failed[p]
                    /\ pc[p] = "done"
                    /\ ExitCode(outcome[p]) = 1
            /\ Cardinality({i \in DOMAIN log[p] : log[p][i] = "upload_pipeline"}) <= 1
            /\ Called(p, "report") =>
                    /\ failed[p] = ""
                    /\ new_version[p] > 0
                    /\ log[p][Len(log[p]) - 1] = "upload_pipeline"

\* A push whose upload failed has ended without a report
UploadFailedNoReport ==
    \E p \in Procs :
        /\ Done(p, "push")
        /\ failed[p] = "upload_pipeline"
        /\ Called(p, "create_pipeline")
        /\ ~Called(p, "report")
        /\ outcome[p] = "raised"

(***************************************************************************)
(* C10                                                                     *)
(***************************************************************************)
\* C10: a successful push adds exactly one version to the pushed pipeline,
\* and during any push every pipeline that existed keeps existing with its
\* earlier versions unchanged, other pipelines being left as they were.
RepushAddsOneVersion ==
    \A p \in Procs :
        inv[p].cmd = "push" =>
            /\ \A s \in Slugs, c \in Codes :
                    /\ before[p].remote[s][c].exists => remote[s][c].exists
                    /\ IsPrefix(before[p].remote[s][c].versions, remote[s][c].versions)
                    /\ s # Started(p).current_workspace \/ c # pipeline[p] =>
                            remote[s][c] = before[p].remote[s][c]
            /\ pc[p] = "done" /\ outcome[p] = "ok" =>
                    Len(remote[Started(p).current_workspace][pipeline[p]].versions)
                        = Len(before[p].remote[Started(p).current_workspace]
                                              [pipeline[p]].versions) + 1

\* A pipeline that already had a version was pushed again
PushedAgain ==
    \E p \in Procs :
        /\ Done(p, "push")
        /\ outcome[p] = "ok"
        /\ before[p].remote[Started(p).current_workspace][pipeline[p]].exists
        /\ Len(before[p].remote[Started(p).current_workspace][pipeline[p]].versions) >= 1
        /\ ~Called(p, "create_pipeline")

(***************************************************************************)
(* C11                                                                     *)
(***************************************************************************)
\* C11: every push that finds the resolved code absent prompts for
\* confirmation, whatever prompts were declined before; a declined prompt
\* leaves the persisted configuration and the backend as they were.
RepromptEveryTime ==
    \A p \in Procs :
        inv[p].cmd = "push" =>
            /\ /\ Called(p, "get_pipeline")
               /\ failed[p] # "get_pipeline"
               /\ ~before[p].remote[Started(p).current_workspace][pipeline[p]].exists
               => pc[p] = "push_confirm" \/ Called(p, "confirm")
            /\ failed[p] = "confirm" =>
                    /\ remote = before[p].remote
                    /\ SameButDebug(Persisted, Started(p))
                    /\ <<workspace(p), pipeline[p]>> \in declined

\* A push has prompted, and was confirmed, for a pipeline whose creation
\* an earlier push had been refused
RepromptedAfterDecline ==
    \E p \in Procs :
        /\ inv[p].cmd = "push"
        /\ pc[p] = "push_create"
        /\ Called(p, "confirm")
        /\ <<workspace(p), pipeline[p]>> \in declined

PushFailureTerseUnlessDebug ==
    \A p \in Procs :
        /\ Done(p, "push")
        /\ failed[p] \in {"import_pipeline", "get_pipelines", "get_pipeline",
                          "create_pipeline", "upload_pipeline"}
        => /\ ExitCode(outcome[p]) = 1
           /\ (outcome[p] = "raised") = inv[p].debug

(***************************************************************************)
(* C16                                                                     *)
(***************************************************************************)
\* C16 as stated: a push that ended in failure leaves the backend as it was
\* before the invocation.
FailedPushLeavesBackend ==
    \A p \in Procs :
        Done(p, "push") /\ ExitCode(outcome[p]) = 1 => remote = before[p].remote

\* C16 amended: once a push has failed, every version is as before the
\* invocation and every pipeline is as before, except that a push whose
\* upload failed after it created the pipeline leaves that pipeline
\* registered with no version.
FailedPushLeavesVersions ==
    \A p \in Procs :
        inv[p].cmd = "push" /\ (failed[p] # "" \/ ExitCode(outcome[p]) = 1) =>
            \A s \in Slugs, c \in Codes :
                /\ remote[s][c].versions = before[p].remote[s][c].versions
                /\ \/ remote[s][c] = before[p].remote[s][c]
                   \/ /\ failed[p] = "upload_pipeline"
                      /\ Called(p, "create_pipeline")
                      /\ s = workspace(p)
                      /\ c = pipeline[p]
                      /\ ~before[p].remote[s][c].exists
                      /\ remote[s][c] = [exists |-> TRUE, versions |-> <<>>]

\* The upload failed after the pipeline had been created
CreatedWithoutVersion ==
    \E p \in Procs :
        /\ Done(p, "push")
        /\ failed[p] = "upload_pipeline"
        /\ ~before[p].remote[workspace(p)][pipeline[p]].exists
        /\ remote[workspace(p)][pipeline[p]] = [exists |-> TRUE, versions |-> <<>>]

(***************************************************************************)
(* C17                                                                     *)
(***************************************************************************)
\* C17: an add with --debug whose validation raised propagates the error
\* and leaves workspaces, tokens, current_workspace, url and sections as
\* persisted before the command.
DebugAddPersistsNothing ==
    \A p \in Procs :
        Done(p, "add") /\ inv[p].debug /\ failed[p] = "get_workspace" =>
            /\ outcome[p] = "raised"
            /\ SameButDebug(Persisted, Started(p))

\* Such an add of an existing, non-current slug with another token
DebugAddOfExistingSlugRaised ==
    \E p \in Procs :
        /\ Done(p, "add")
        /\ inv[p].debug
        /\ failed[p] = "get_workspace"
        /\ Has(Started(p).workspaces, inv[p].slug)
        /\ TokenOf(Started(p).workspaces, inv[p].slug) # inv[p].token
        /\ Started(p).current_workspace \notin {"", inv[p].slug}
        /\ TokenOf(Persisted.workspaces, inv[p].slug) # inv[p].token

(***************************************************************************)
(* C18                                                                     *)
(***************************************************************************)
\* C18: throughout workspaces list, config, pipelines list and pipelines
\* push, the persisted workspaces, tokens, url, current_workspace and
\* sections are those persisted when the command started.
ReadOnlyCommandsKeepConfig ==
    \A p \in SeqProcs :
        inv[p].cmd \in {"list", "config", "pipelines_list", "push"} =>
            SameButDebug(Persisted, Started(p))

\* A successful push over two workspaces has changed the debug field only
PushChangedDebugOnly ==
    \E p \in SeqProcs :
        /\ Done(p, "push")
        /\ outcome[p] = "ok"
        /\ Len(Persisted.workspaces) = Cardinality(Slugs)
        /\ Persisted.debug # Started(p).debug

(***************************************************************************)
(* C15                                                                     *)
(***************************************************************************)
\* C15: pipelines list prints the 'no pipelines' report and no line for an
\* empty list, and otherwise one line per pipeline whose version is
\* "v<number>" when currentVersion has a number and "N/A" when it has none.
ListRendersEveryVersion ==
    \A p \in Procs :
        Done(p, "pipelines_list") /\ outcome[p] = "ok" =>
            IF workspace_pipelines[p] = <<>>
            THEN output[p] = [report |-> "no_pipelines", lines |-> <<>>]
            ELSE /\ output[p].report = "pipelines"
                 /\ Len(output[p].lines) = Len(workspace_pipelines[p])
                 /\ \A i \in DOMAIN workspace_pipelines[p] :
                        /\ output[p].lines[i].code = workspace_pipelines[p][i].code
                        /\ output[p].lines[i].name = workspace_pipelines[p][i].name
                        /\ output[p].lines[i].version =
                             IF workspace_pipelines[p][i].currentVersion = <<>>
                             THEN <<"N/A">>
                             ELSE <<"v", workspace_pipelines[p][i].currentVersion[1]>>

(***************************************************************************)
(* C13                                                                     *)
(***************************************************************************)
\* The configuration p is about to save: what it loaded, changed by its
\* command
Mutated(p) ==
    CASE pc[p] = "app_save" -> [user_config[p] EXCEPT !.debug = str(inv[p].debug)]
      [] pc[p] = "add" -> add(user_config[p], inv[p].slug, inv[p].token)
      [] pc[p] = "activate" -> activate(user_config[p], inv[p].slug)
      [] pc[p] = "rm" -> rm(user_config[p], inv[p].slug)
      [] pc[p] = "set_url" -> [user_config[p] EXCEPT !.url = inv[p].url]
      [] OTHER -> user_config[p]

\* C13: every step that changes the file is a save by one process, taken
\* whenever that process is ready (no lock), and leaves the file equal to
\* the whole configuration that process loaded and mutated, whatever the
\* file held.
WholeFileLastWriteWins ==
    [][disk' # disk =>
        \E p \in Procs :
            /\ pc'[p] # pc[p]
            /\ disk' = save_config(Mutated(p))
            /\ disk' = save_config(user_config'[p])]_vars

\* Two command lines only: an add completed, and its workspace is gone
\* because the other process, which removes nothing, saved an older load
LostUpdate ==
    \E p, q \in Procs :
        /\ p # q
        /\ runs = 2
        /\ Done(p, "add")
        /\ outcome[p] = "ok"
        /\ pc[q] = "done"
        /\ inv[q].cmd \in {"list", "set_url"}
        /\ ~Has(Persisted.workspaces, inv[p].slug)

(***************************************************************************)
(* C19                                                                     *)
(***************************************************************************)
\* C19: under any interleaving, the persisted current_workspace is empty
\* or a key of the persisted workspaces, and so is the current_workspace
\* of every configuration a process holds in memory.
ConcurrentCurrentWorkspaceInvariant ==
    /\ Persisted.current_workspace \in {""} \cup Keys(Persisted.workspaces)
    /\ \A p \in Procs :
            user_config[p].current_workspace
                \in {""} \cup Keys(user_config[p].workspaces)

\* A workspace was removed, and an activate of it that had loaded before
\* the removal saved afterwards: it is persisted again, and current
StaleActivateAfterRemove ==
    \E p, q \in Procs :
        /\ Done(p, "rm")
        /\ outcome[p] = "ok"
        /\ Done(q, "activate")
        /\ outcome[q] = "ok"
        /\ inv[p].slug = inv[q].slug
        /\ Has(Started(p).workspaces, inv[p].slug)
        /\ Persisted.current_workspace = inv[q].slug

=============================================================================
